---- MODULE Spec2Model ----
(***************************************************************************)
(* Model of src/messages.cc (V8): MessageHandler::ReportMessage and the    *)
(* default reporter, the CallSite accessors, MessageTemplate formatting    *)
(* and the stack capture that ConstructError requests.                     *)
(***************************************************************************)
EXTENDS Integers, Sequences, FiniteSets, TLC

(***************************************************************************)
(* Bounds of the model.                                                    *)
(***************************************************************************)
MaxListeners == 3
MaxDepth == 2

(***************************************************************************)
(* Values of the isolate's exception slots.  An exception object carries   *)
(* the call depth of ReportMessage at which it was created (0 = outside    *)
(* of any report).                                                         *)
(***************************************************************************)
TheHole == [kind |-> "hole", born |-> 0]
Exc(d) == [kind |-> "exception", born |-> d]

Undefined == [cb |-> "undefined", data |-> "undefined"]
Callbacks == {"f", "g"}
\* The registrations the embedder makes: f without data, g with data.
Registrations == {[cb |-> "f", data |-> "undefined"], [cb |-> "g", data |-> "data"]}

\* A location is NULL or a script (here: its name, a string or undefined, and
\* the offsets at which its lines end) with a start offset.
NoLocation == [script |-> "NULL", line_ends |-> <<>>, start_pos |-> 0]
LineEnds == <<3, 7>>
Locations == {NoLocation,
              [script |-> "a.js", line_ends |-> LineEnds, start_pos |-> 5],
              [script |-> "undefined", line_ends |-> LineEnds, start_pos |-> 5]}

VARIABLES
  listeners,            \* factory()->message_listeners(): the registry
  pending_exception,    \* isolate->pending_exception()
  scheduled_exception,  \* isolate->scheduled_exception()
  stack                 \* activations of ReportMessage, outermost first

reportVars == <<listeners, pending_exception, scheduled_exception, stack>>

Depth == Len(stack)
Top == stack[Depth]

SetTop(f) == [stack EXCEPT ![Depth] = f]

has_pending_exception == pending_exception.kind = "exception"
has_scheduled_exception == scheduled_exception.kind = "exception"

\* Code supplied by the embedder or the user is running: at top level, inside
\* a listener callback, or inside Object::ToString of the message argument.
UserCodeRunning ==
  \/ Depth = 0
  \/ Depth > 0 /\ Top.pc \in {"callback", "converting"}

(***************************************************************************)
(* The embedder's registry operations (api.cc).                            *)
(***************************************************************************)
\* Isolate::AddMessageListener: append an entry, never reuse a tombstone.
AddMessageListener(entry) ==
  /\ UserCodeRunning
  /\ Len(listeners) < MaxListeners
  /\ listeners' = Append(listeners, entry)
  /\ UNCHANGED <<pending_exception, scheduled_exception, stack>>

\* Isolate::RemoveMessageListeners: tombstone every entry of the callback in place.
RemoveMessageListeners(that) ==
  /\ UserCodeRunning
  /\ \E k \in 1..Len(listeners) : listeners[k].cb = that
  /\ listeners' = [k \in 1..Len(listeners) |->
                     IF listeners[k].cb = that THEN Undefined ELSE listeners[k]]
  /\ UNCHANGED <<pending_exception, scheduled_exception, stack>>

\* JavaScript throws: Isolate::Throw leaves a pending exception.
Throw ==
  /\ UserCodeRunning
  /\ pending_exception = TheHole
  /\ pending_exception' = Exc(Depth)
  /\ UNCHANGED <<listeners, scheduled_exception, stack>>

\* v8::Isolate::ThrowException from API code: schedules an exception.  Inside
\* JavaScript (the conversion) a scheduled exception is promoted to a thrown
\* one before control returns, so it is left scheduled only by API code.
ScheduleException ==
  /\ \/ Depth = 0
     \/ Depth > 0 /\ Top.pc = "callback"
  /\ scheduled_exception = TheHole
  /\ scheduled_exception' = Exc(Depth)
  /\ UNCHANGED <<listeners, pending_exception, stack>>

(***************************************************************************)
(* MessageHandler::ReportMessage, messages.cc:77-152.                      *)
(***************************************************************************)
UndefinedValue == [kind |-> "undefined", born |-> 0]
NoFailure == [slot |-> 0, kind |-> "none"]
DataValue == [kind |-> "data", born |-> 0]

\* Isolate::ExceptionScope: the constructor keeps the pending exception, the
\* destructor puts it back.
ExceptionScope(pending) == pending
ExceptionScopeRestore(saved) == saved

\* messages.cc:90-91: the scope is opened, then the slot is cleared.
EnterExceptionScopeClearFirst(pending) ==
  [saved |-> ExceptionScope(TheHole), pending |-> TheHole]
EnterExceptionScope(pending) ==
  [saved |-> ExceptionScope(pending), pending |-> TheHole]

\* messages.cc:84-88: the exception object handed to the listeners.
ExceptionObject(pending) ==
  IF pending.kind = "exception" THEN pending ELSE UndefinedValue

\* messages.cc:77-92.  The message and the location are parameters the
\* function reads later; the model draws each where the code first reads it.
ReportMessageEnter ==
  /\ UserCodeRunning
  /\ Depth < MaxDepth
  /\ LET scope == EnterExceptionScope(pending_exception)
         frame == [argument |-> "unread",
                   entry |-> pending_exception,
                   saved |-> scope.saved,
                   exception |-> ExceptionObject(pending_exception),
                   global_length |-> 0,
                   i |-> 0,
                   pc |-> "entered",
                   called |-> <<>>,
                   live |-> {},
                   firstFailure |-> NoFailure,
                   out |-> <<>>]
     IN /\ pending_exception' = scope.pending
        /\ stack' = Append(stack, frame)
  /\ UNCHANGED <<listeners, scheduled_exception>>

\* messages.cc:95: the argument is not a JSObject, nothing to convert.
ConvertSkip ==
  /\ Depth > 0
  /\ Top.pc = "entered"
  /\ stack' = SetTop([Top EXCEPT !.argument = "string", !.pc = "dispatch"])
  /\ UNCHANGED <<listeners, pending_exception, scheduled_exception>>

\* messages.cc:102-106 and 115-118: a JSError is stringified by
\* Execution::TryCall of no_side_effects_to_string_fun, which runs no user code
\* and leaves no exception behind; a failure gives "exception".
ConvertJSError ==
  /\ Depth > 0
  /\ Top.pc = "entered"
  /\ \E ok \in BOOLEAN :
       stack' = SetTop([Top EXCEPT
                  !.argument = IF ok THEN "string" ELSE "exception",
                  !.pc = "dispatch"])
  /\ UNCHANGED <<listeners, pending_exception, scheduled_exception>>

\* messages.cc:108-112: Object::ToString of another object runs user code
\* under a non-verbose TryCatch.
ConvertToStringBegin ==
  /\ Depth > 0
  /\ Top.pc = "entered"
  /\ stack' = SetTop([Top EXCEPT !.argument = "JSObject", !.pc = "converting"])
  /\ UNCHANGED <<listeners, pending_exception, scheduled_exception>>

\* messages.cc:113-118: the conversion returns; a failure gives "exception".
\* An exception the user code threw may still sit in the pending slot.
ConvertToStringEnd ==
  /\ Depth > 0
  /\ Top.pc = "converting"
  /\ \E ok \in BOOLEAN :
       stack' = SetTop([Top EXCEPT
                  !.argument = IF ok THEN "string" ELSE "exception",
                  !.pc = "dispatch"])
  /\ UNCHANGED <<listeners, pending_exception, scheduled_exception>>

\* messages.cc:124-126
DispatchStart ==
  /\ Depth > 0
  /\ Top.pc = "dispatch"
  /\ stack' = SetTop([Top EXCEPT
               !.global_length = Len(listeners),
               !.i = 1,
               !.pc = IF Len(listeners) = 0 THEN "default" ELSE "loop"])
  /\ UNCHANGED <<listeners, pending_exception, scheduled_exception>>

(***************************************************************************)
(* MessageHandler::DefaultMessageReport, messages.cc:31-46.                *)
(***************************************************************************)
\* MessageHandler::GetLocalizedMessage: the text of the message.
GetLocalizedMessage(argument) == <<"message", argument>>

\* messages.cc:35-45: the line PrintF writes.
DefaultMessageReport(loc, argument) ==
  IF loc = NoLocation
    THEN [located |-> FALSE, name |-> "", number |-> 0,
          str |-> GetLocalizedMessage(argument)]
    ELSE [located |-> TRUE,
          name |-> IF loc.script # "undefined" THEN loc.script ELSE "<unknown>",
          number |-> loc.start_pos,
          str |-> GetLocalizedMessage(argument)]

\* messages.cc:128-130 and 147-149: a scheduled exception is dropped.
ClearScheduledKeep(scheduled) == scheduled
ClearScheduled(scheduled) ==
  IF scheduled.kind = "exception" THEN TheHole ELSE scheduled

\* messages.cc:127-130: the default path.  Formatting the message may leave
\* an exception scheduled, which is dropped.
ReportDefault ==
  /\ Depth > 0
  /\ Top.pc = "default"
  /\ \E schedules \in BOOLEAN :
       LET during == IF schedules THEN Exc(Depth) ELSE scheduled_exception
       IN scheduled_exception' = ClearScheduled(during)
  /\ \E loc \in Locations :
       stack' = SetTop([Top EXCEPT
                  !.out = Append(@, [loc |-> loc,
                                     line |-> DefaultMessageReport(loc, Top.argument)]),
                  !.pc = "exit"])
  /\ UNCHANGED <<listeners, pending_exception>>

(***************************************************************************)
(* The listener loop, messages.cc:132-150.                                 *)
(***************************************************************************)
\* messages.cc:132: the loop runs to the length read at line 125.
LoopBoundLive(frame, registry) == Len(registry)
LoopBound(frame, registry) == frame.global_length

\* messages.cc:134: a tombstoned slot is skipped.
IsSkippedNever(entry) == FALSE
IsSkipped(entry) == entry = Undefined

\* messages.cc:143-145: the second argument of the callback.
CallbackArgument(entry, exception) ==
  IF entry.data = "undefined" THEN exception ELSE DataValue

\* messages.cc:140-150: the TryCatch keeps a failure of the callback inside
\* the iteration; the loop goes on with the next slot.
AfterCallbackAbort(failed) == IF failed THEN "exit" ELSE "loop"
AfterCallback(failed) == "loop"

\* messages.cc:132: the loop condition fails.
LoopEnd ==
  /\ Depth > 0
  /\ Top.pc = "loop"
  /\ ~(Top.i <= LoopBound(Top, listeners))
  /\ stack' = SetTop([Top EXCEPT !.pc = "exit"])
  /\ UNCHANGED <<listeners, pending_exception, scheduled_exception>>

\* messages.cc:134: continue.
LoopSkip ==
  /\ Depth > 0
  /\ Top.pc = "loop"
  /\ Top.i <= LoopBound(Top, listeners)
  /\ Top.i <= Len(listeners)
  /\ IsSkipped(listeners[Top.i])
  /\ stack' = SetTop([Top EXCEPT !.i = @ + 1])
  /\ UNCHANGED <<listeners, pending_exception, scheduled_exception>>

\* messages.cc:135-145: the callback of the slot is entered.
LoopCall ==
  /\ Depth > 0
  /\ Top.pc = "loop"
  /\ Top.i <= LoopBound(Top, listeners)
  /\ Top.i <= Len(listeners)
  /\ ~IsSkipped(listeners[Top.i])
  /\ LET entry == listeners[Top.i]
     IN stack' = SetTop([Top EXCEPT
                  !.called = Append(@, [slot |-> Top.i,
                                        cb |-> entry.cb,
                                        arg |-> CallbackArgument(entry, Top.exception)]),
                  !.live = IF entry # Undefined THEN @ \cup {Top.i} ELSE @,
                  !.pc = "callback"])
  /\ UNCHANGED <<listeners, pending_exception, scheduled_exception>>

\* messages.cc:146-149: the callback returns, normally or with an exception
\* the TryCatch caught; a scheduled exception is dropped.
CallbackReturn ==
  /\ Depth > 0
  /\ Top.pc = "callback"
  /\ \E threw \in BOOLEAN :
       LET failed == threw \/ has_scheduled_exception
           failure == [slot |-> Top.i,
                       kind |-> IF has_scheduled_exception THEN "scheduled" ELSE "threw"]
       IN stack' = SetTop([Top EXCEPT
                    !.firstFailure = IF failed /\ @ = NoFailure THEN failure ELSE @,
                    !.i = @ + 1,
                    !.pc = AfterCallback(failed)])
  /\ scheduled_exception' = ClearScheduled(scheduled_exception)
  /\ UNCHANGED <<listeners, pending_exception>>

\* messages.cc:152: the ExceptionScope goes out of scope.
ReportMessageExit ==
  /\ Depth > 0
  /\ Top.pc = "exit"
  /\ pending_exception' = ExceptionScopeRestore(Top.saved)
  /\ stack' = SetTop([Top EXCEPT !.pc = "returned"])
  /\ UNCHANGED <<listeners, scheduled_exception>>

\* The activation returns to its caller.
ReportMessageReturn ==
  /\ Depth > 0
  /\ Top.pc = "returned"
  /\ stack' = SubSeq(stack, 1, Depth - 1)
  /\ UNCHANGED <<listeners, pending_exception, scheduled_exception>>

(***************************************************************************)
(* Claims about ReportMessage.                                             *)
(***************************************************************************)
Frames == {stack[k] : k \in 1..Len(stack)}
CalledSlots(frame) == {frame.called[k].slot : k \in 1..Len(frame.called)}
\* The slots the loop of the activation has dealt with so far.
SlotsDone(frame) ==
  CASE frame.pc = "loop" -> 1..(frame.i - 1)
    [] frame.pc = "callback" -> 1..frame.i
    [] frame.pc \in {"exit", "returned"} -> 1..frame.global_length
    [] OTHER -> {}
OnListenerPath(frame) ==
  frame.pc \in {"loop", "callback", "exit", "returned"} /\ frame.global_length > 0

\* C1: with at least one registered listener, every entry that is live when
\* the loop reaches its slot is invoked exactly once for the message, in
\* registration order, and a failure of one callback (thrown or scheduled)
\* does not keep a later live listener from being invoked.
C1_EveryLiveListenerInvokedOnce ==
  \A frame \in Frames :
    OnListenerPath(frame) =>
      \* in registration order, none twice
      /\ \A k \in 1..(Len(frame.called) - 1) :
           frame.called[k].slot < frame.called[k + 1].slot
      \* the entries live when reached are the ones invoked
      /\ CalledSlots(frame) = frame.live
      \* an entry still live after the loop passed it was invoked, whatever
      \* happened to the callbacks before it
      /\ \A j \in SlotsDone(frame) :
           (j <= Len(listeners) /\ listeners[j] # Undefined) => j \in CalledSlots(frame)
      /\ frame.pc \in {"exit", "returned"} => frame.i = frame.global_length + 1

\* A listener failed and a later-registered live listener was still invoked.
C1_Witness ==
  \E frame \in Frames :
    /\ frame.pc = "returned"
    /\ frame.firstFailure.kind = "threw"
    /\ Len(frame.called) >= 2
    /\ frame.firstFailure.slot < frame.called[Len(frame.called)].slot

\* C2: the pending-exception slot is saved on entry and cleared before any
\* conversion or listener code runs, and when an activation of ReportMessage
\* returns, nested or outermost, the slot holds again what it held on entry.
C2_PendingExceptionRestored ==
  /\ \A frame \in Frames : frame.saved = frame.entry
  /\ Depth > 0 =>
       /\ Top.pc = "entered" => pending_exception = TheHole
       /\ Top.pc = "returned" => pending_exception = Top.entry

\* A nested report, entered from a listener of an outer report while an
\* exception was pending, has returned after one of its own listeners failed;
\* the outer report was itself entered with a pending exception.
C2_Witness ==
  /\ Depth = 2
  /\ stack[1].pc = "callback"
  /\ stack[1].entry.kind = "exception"
  /\ Top.pc = "returned"
  /\ Top.entry.kind = "exception"
  /\ Top.entry # stack[1].entry
  /\ Top.firstFailure # NoFailure

\* C3: an exception scheduled while a listener callback or the default
\* reporter runs is dropped right after it, so when ReportMessage returns no
\* exception created during the report is scheduled.
C3_NoScheduledExceptionLeaks ==
  Depth > 0 =>
    /\ (Top.pc \in {"loop", "exit"} /\ (Top.called # <<>> \/ Top.out # <<>>))
         => scheduled_exception = TheHole
    /\ Top.pc = "returned" =>
         (scheduled_exception.kind = "exception" => scheduled_exception.born < Depth)

\* A report whose last slot is a tombstone has returned after a callback
\* scheduled an exception.
C3_Witness ==
  /\ Depth > 0
  /\ Top.pc = "returned"
  /\ Top.firstFailure.kind = "scheduled"
  /\ Top.global_length >= 2
  /\ listeners[Top.global_length] = Undefined
  /\ Top.global_length \notin CalledSlots(Top)

\* C4: the loop runs over the slots present at dispatch start: an entry
\* registered while the dispatch is in progress is not invoked for its
\* message, a tombstoned slot is skipped and never called, and the loop never
\* reads past the registry.
C4_DispatchOverSnapshot ==
  \A frame \in Frames :
    OnListenerPath(frame) =>
      /\ frame.global_length <= Len(listeners)
      /\ (frame.pc \in {"loop", "callback"}) => frame.i <= Len(listeners) + 1
      /\ \A k \in 1..Len(frame.called) :
           /\ frame.called[k].slot <= frame.global_length
           /\ frame.called[k].cb \in Callbacks
      /\ \A j \in SlotsDone(frame) \ CalledSlots(frame) :
           j <= Len(listeners) /\ listeners[j] = Undefined

\* A dispatch has finished during which a listener was registered (it is live
\* in a slot beyond the snapshot) and a tombstoned slot was skipped.
C4_Witness ==
  \E frame \in Frames :
    /\ frame.pc = "returned"
    /\ frame.called # <<>>
    /\ Len(listeners) > frame.global_length
    /\ listeners[Len(listeners)] # Undefined
    /\ \E j \in 1..frame.global_length : j \notin CalledSlots(frame)

\* Script::GetLineNumber: the 0-based line of an offset, from the offsets at
\* which the lines of the script end.
GetLineNumber(line_ends, pos) ==
  Cardinality({k \in 1..Len(line_ends) : line_ends[k] < pos})

\* The line the default reporter is said to write for a message.
ExpectedReport(loc, argument) ==
  IF loc = NoLocation
    THEN [located |-> FALSE, name |-> "", number |-> 0,
          str |-> GetLocalizedMessage(argument)]
    ELSE [located |-> TRUE,
          name |-> IF loc.script # "undefined" THEN loc.script ELSE "<unknown>",
          number |-> GetLineNumber(loc.line_ends, loc.start_pos) + 1,
          str |-> GetLocalizedMessage(argument)]

\* C5: with zero listeners the default reporter runs exactly once and no
\* listener does; it writes "<name>:<line>: <message>" with the 1-based line
\* of the location, or "<message>" without a location.
C5_DefaultReportText ==
  \A frame \in Frames :
    (frame.pc \in {"exit", "returned"} /\ frame.global_length = 0) =>
      /\ frame.called = <<>>
      /\ Len(frame.out) = 1
      /\ frame.out[1].line = ExpectedReport(frame.out[1].loc, frame.argument)

\* The part of C5 the code keeps: one line, no listener, name and message.
DefaultReportOnce ==
  \A frame \in Frames :
    (frame.pc \in {"exit", "returned"} /\ frame.global_length = 0) =>
      /\ frame.called = <<>>
      /\ Len(frame.out) = 1
      /\ frame.out[1].line.name = ExpectedReport(frame.out[1].loc, frame.argument).name
      /\ frame.out[1].line.str = GetLocalizedMessage(frame.argument)

(***************************************************************************)
(* CallSite, messages.cc:170-365.                                          *)
(***************************************************************************)
MaxChain == 2

VARIABLES
  call_site_obj,   \* the frame record a CallSite is constructed from
  site,            \* the CallSite: fun_, receiver_, wasm_obj_, pos_
  accessor,        \* the accessor called on the site, "none" before the call
  result           \* what the accessor returned

siteVars == <<call_site_obj, site, accessor, result>>

\* Results of the accessors.  "crash" stands for a failed accessor.
\* Strings are sequences of characters.
RNull == [kind |-> "null", str |-> <<>>, num |-> 0, bool |-> FALSE]
RStr(s) == [kind |-> "string", str |-> s, num |-> 0, bool |-> FALSE]
RInt(n) == [kind |-> "int", str |-> <<>>, num |-> n, bool |-> FALSE]
RBool(b) == [kind |-> "bool", str |-> <<>>, num |-> 0, bool |-> b]
RCrash == [kind |-> "crash", str |-> <<>>, num |-> 0, bool |-> FALSE]
RNone == [kind |-> "none", str |-> <<>>, num |-> 0, bool |-> FALSE]

\* Property names and the kinds of own property an object binds them to:
\* a data property holding the function (enumerable or not), a data property
\* holding something else, an accessor pair with the function as getter.
Keys == << <<"m">>, <<"n">> >>
PropertiesOfM == {"absent", "fun", "fun_dont_enum", "other", "getter"}
PropertiesOfN == {"absent", "fun"}
Objects ==
  [m : PropertiesOfM, n : PropertiesOfN, access_check : BOOLEAN, kind : {"JSObject"}]
  \cup {[m |-> "absent", n |-> "absent", access_check |-> FALSE, kind |-> "JSProxy"]}

RECURSIVE ChainsOfLength(_)
ChainsOfLength(len) ==
  IF len = 0 THEN {<<>>}
  ELSE {<<o>> \o c : o \in Objects, c \in ChainsOfLength(len - 1)}
Chains == UNION {ChainsOfLength(len) : len \in 1..MaxChain}

\* shared()->name() of the function: a string, or (the empty sequence with
\* name_is_string FALSE) something else.
GetM == <<"g", "e", "t", " ", "m">>
FunctionNames == {[is_string |-> TRUE, chars |-> <<"m">>],
                  [is_string |-> TRUE, chars |-> GetM],
                  [is_string |-> TRUE, chars |-> <<"x">>],
                  [is_string |-> FALSE, chars |-> <<>>]}
\* shared()->script(): not a script, or a script of one of three kinds.
ScriptKinds == {"none", "normal", "eval", "native"}
ScriptName == <<"a", ".", "j", "s">>
SourceUrl == <<"u", "r", "l">>
EvalString == <<"e", "v", "a", "l">>

NullFunction == [is_null |-> TRUE, name |-> [is_string |-> TRUE, chars |-> <<>>],
                 script |-> "none"]
NullReceiver == [kind |-> "null_handle", chain |-> <<>>, constructor_is_fun |-> FALSE]
PlainReceiver(kind) ==
  [kind |-> kind,
   chain |-> <<[m |-> "absent", n |-> "absent", access_check |-> FALSE,
                kind |-> "JSObject"]>>,
   constructor_is_fun |-> FALSE]

\* Frame records: JavaScript frames whose receiver is an object with a
\* prototype chain, JavaScript frames of every script kind with the other
\* receivers, wasm frames, and records with neither marker.
MethodFrames ==
  {[marker |-> "js",
    fun |-> [is_null |-> FALSE, name |-> fname, script |-> "normal"],
    receiver |-> [kind |-> "object", chain |-> chain, constructor_is_fun |-> FALSE],
    position |-> 5, wasm_name |-> FALSE] :
   fname \in FunctionNames, chain \in Chains}
ClassifiedFrames ==
  {[marker |-> "js",
    fun |-> [is_null |-> FALSE, name |-> fname, script |-> script],
    receiver |-> receiver,
    position |-> pos, wasm_name |-> FALSE] :
   fname \in {[is_string |-> TRUE, chars |-> <<>>],
              [is_string |-> TRUE, chars |-> <<"m">>]},
   script \in ScriptKinds, pos \in {-1, 5},
   receiver \in {PlainReceiver("null"), PlainReceiver("undefined"),
                 PlainReceiver("global_proxy"), PlainReceiver("ctor_symbol"),
                 PlainReceiver("proxy"),
                 [kind |-> "object",
                  chain |-> <<[m |-> "absent", n |-> "absent",
                               access_check |-> FALSE, kind |-> "JSObject"]>>,
                  constructor_is_fun |-> TRUE]}}
WasmFrames ==
  {[marker |-> "wasm", fun |-> NullFunction, receiver |-> NullReceiver,
    position |-> 5, wasm_name |-> named] : named \in BOOLEAN}
InvalidFrames ==
  {[marker |-> "none", fun |-> NullFunction, receiver |-> NullReceiver,
    position |-> pos, wasm_name |-> FALSE] : pos \in {-1, 5}}
FrameRecords == MethodFrames \cup ClassifiedFrames \cup WasmFrames \cup InvalidFrames

NoSite == [constructed |-> FALSE, fun_ |-> NullFunction, receiver_ |-> NullReceiver,
           wasm_obj_ |-> FALSE, wasm_name |-> FALSE, pos_ |-> -1]

\* messages.cc:170-196: the constructor.  A record with neither marker leaves
\* every member as it was default-constructed.
CallSiteConstructor(obj) ==
  IF obj.marker = "js"
    THEN [constructed |-> TRUE, fun_ |-> obj.fun, receiver_ |-> obj.receiver,
          wasm_obj_ |-> FALSE, wasm_name |-> FALSE, pos_ |-> obj.position]
  ELSE IF obj.marker = "wasm"
    THEN [constructed |-> TRUE, fun_ |-> NullFunction, receiver_ |-> NullReceiver,
          wasm_obj_ |-> TRUE, wasm_name |-> obj.wasm_name, pos_ |-> obj.position]
  ELSE [NoSite EXCEPT !.constructed = TRUE]

\* Object::ToObject(receiver_)->IsJSObject(): a global proxy is a JSObject, a
\* symbol is wrapped into one, a proxy is none.
ReceiverIsJSObject(r) == r.kind \in {"object", "global_proxy", "ctor_symbol"}

\* messages.h: the classification of a site.
IsJavaScript(s) == ~s.fun_.is_null
IsWasm(s) == s.wasm_obj_
IsValid(s) == IsJavaScript(s) \/ IsWasm(s)

\* Script members: name(), source_url() (a string for eval scripts here),
\* type(), compilation_type().
IsScript(script) == script # "none"

\* A dereference of an empty handle is undefined: the accessor fails, or goes
\* on with whatever it finds.
DerefEmptyHandle(values) == {RCrash} \cup values

\* messages.cc:199-204
GetFileName(s) ==
  IF ~IsJavaScript(s) THEN {RNull}
  ELSE IF ~IsScript(s.fun_.script) THEN {RNull}
  ELSE {RStr(ScriptName)}

\* messages.cc:207-222
GetFunctionName(s) ==
  IF IsWasm(s) THEN {IF s.wasm_name THEN RStr(<<"w">>) ELSE RNull}
  ELSE IF s.fun_.is_null THEN DerefEmptyHandle({RNull, RStr(<<"?">>)})
  ELSE IF s.fun_.name.is_string /\ Len(s.fun_.name.chars) # 0
    THEN {RStr(s.fun_.name.chars)}
  ELSE IF IsScript(s.fun_.script) /\ s.fun_.script = "eval" THEN {RStr(EvalString)}
  ELSE {RNull}

\* messages.cc:224-232
GetScriptNameOrSourceUrl(s) ==
  IF ~IsJavaScript(s) THEN {RNull}
  ELSE IF ~IsScript(s.fun_.script) THEN {RNull}
  ELSE IF s.fun_.script = "eval" THEN {RStr(SourceUrl)}
  ELSE {RStr(ScriptName)}

\* The own property an object binds a key to.
Property(obj, key) ==
  IF key = <<"m">> THEN obj.m ELSE IF key = <<"n">> THEN obj.n ELSE "absent"

\* LookupIterator::PropertyOrElement: the state in which the iterator stops,
\* starting at object k of the chain; with config OWN it looks at that object
\* only.  It stops at a proxy and at an object that needs an access check.
RECURSIVE LookupIterator(_, _, _, _)
LookupIterator(chain, k, key, own) ==
  IF k > Len(chain) THEN "NOT_FOUND"
  ELSE IF chain[k].kind = "JSProxy" THEN "JSPROXY"
  ELSE IF chain[k].access_check THEN "ACCESS_CHECK"
  ELSE IF Property(chain[k], key) # "absent" THEN Property(chain[k], key)
  ELSE IF own THEN "NOT_FOUND"
  ELSE LookupIterator(chain, k + 1, key, own)

\* messages.cc:234-249: a data property holding the function, or an accessor
\* pair with the function as getter or setter.
CheckMethodNameDataOnly(chain, k, key, own) ==
  LookupIterator(chain, k, key, own) \in {"fun", "fun_dont_enum"}
CheckMethodName(chain, k, key, own) ==
  LookupIterator(chain, k, key, own) \in {"fun", "fun_dont_enum", "getter"}

\* KeyAccumulator::GetOwnEnumPropertyKeys: the own enumerable keys, in order.
GetOwnEnumPropertyKeys(obj) ==
  SelectSeq(Keys, LAMBDA key : Property(obj, key) \in {"fun", "other", "getter"})

\* String::IsUtf8EqualTo(prefix, true): the string starts with the prefix.
IsUtf8EqualToPrefix(chars, prefix) ==
  Len(chars) >= Len(prefix) /\ SubSeq(chars, 1, Len(prefix)) = prefix

\* messages.cc:269-272: "get " and "set " are stripped.
StripAccessorPrefix(chars) ==
  IF \/ IsUtf8EqualToPrefix(chars, <<"g", "e", "t", " ">>)
     \/ IsUtf8EqualToPrefix(chars, <<"s", "e", "t", " ">>)
    THEN SubSeq(chars, 5, Len(chars))
    ELSE chars

\* messages.cc:281-303: the walk over the chain, object k and its key number
\* i next, with the match found so far (RNone for none).
RECURSIVE MethodNameWalkFirstMatch(_, _, _, _)
MethodNameWalkFirstMatch(chain, k, i, found) ==
  IF k > Len(chain) \/ chain[k].kind # "JSObject" \/ chain[k].access_check
    THEN (IF found # RNone THEN found ELSE RNull)
  ELSE LET keys == GetOwnEnumPropertyKeys(chain[k])
       IN IF i > Len(keys) THEN MethodNameWalkFirstMatch(chain, k + 1, 1, found)
          ELSE IF ~CheckMethodName(chain, k, keys[i], TRUE)
            THEN MethodNameWalkFirstMatch(chain, k, i + 1, found)
          ELSE IF found # RNone THEN found
          ELSE MethodNameWalkFirstMatch(chain, k, i + 1, RStr(keys[i]))

RECURSIVE MethodNameWalk(_, _, _, _)
MethodNameWalk(chain, k, i, found) ==
  IF k > Len(chain) \/ chain[k].kind # "JSObject" \/ chain[k].access_check
    THEN (IF found # RNone THEN found ELSE RNull)
  ELSE LET keys == GetOwnEnumPropertyKeys(chain[k])
       IN IF i > Len(keys) THEN MethodNameWalk(chain, k + 1, 1, found)
          ELSE IF ~CheckMethodName(chain, k, keys[i], TRUE)
            THEN MethodNameWalk(chain, k, i + 1, found)
          ELSE IF found # RNone THEN RNull
          ELSE MethodNameWalk(chain, k, i + 1, RStr(keys[i]))

\* messages.cc:252-304
GetMethodName(s) ==
  IF ~IsJavaScript(s) \/ s.receiver_.kind \in {"null", "undefined"} THEN {RNull}
  ELSE IF ~ReceiverIsJSObject(s.receiver_) THEN {RNull}
  ELSE LET chain == s.receiver_.chain
           name == StripAccessorPrefix(s.fun_.name.chars)
       IN IF s.fun_.name.is_string /\ CheckMethodName(chain, 1, name, FALSE)
            THEN {RStr(name)}
            ELSE {MethodNameWalk(chain, 1, 1, RNone)}

\* Script::GetColumnNumber: the 0-based column of an offset.
GetColumnNumber(line_ends, pos) ==
  LET line == GetLineNumber(line_ends, pos)
  IN IF line = 0 THEN pos ELSE pos - (line_ends[line] + 1)

\* messages.cc:307-316
CallSiteGetLineNumber(s) ==
  IF s.pos_ >= 0 /\ IsJavaScript(s) /\ IsScript(s.fun_.script)
    THEN {RInt(GetLineNumber(LineEnds, s.pos_) + 1)}
    ELSE {RInt(-1)}

\* messages.cc:319-328
CallSiteGetColumnNumber(s) ==
  IF s.pos_ >= 0 /\ IsJavaScript(s) /\ IsScript(s.fun_.script)
    THEN {RInt(GetColumnNumber(LineEnds, s.pos_) + 1)}
    ELSE {RInt(-1)}

\* messages.cc:331-336
IsNative(s) ==
  IF ~IsJavaScript(s) THEN {RBool(FALSE)}
  ELSE {RBool(IsScript(s.fun_.script) /\ s.fun_.script = "native")}

\* messages.cc:339-343
IsToplevel(s) ==
  IF IsWasm(s) THEN {RBool(FALSE)}
  ELSE IF s.receiver_.kind = "null_handle" THEN DerefEmptyHandle({RBool(FALSE), RBool(TRUE)})
  ELSE {RBool(s.receiver_.kind \in {"global_proxy", "null", "undefined"})}

\* messages.cc:346-352
IsEval(s) ==
  IF ~IsJavaScript(s) THEN {RBool(FALSE)}
  ELSE {RBool(IsScript(s.fun_.script) /\ s.fun_.script = "eval")}

\* messages.cc:355-365
IsConstructor(s) ==
  IF s.receiver_.kind = "null_handle" THEN DerefEmptyHandle({RBool(FALSE), RBool(TRUE)})
  ELSE IF s.receiver_.kind = "ctor_symbol" THEN {RBool(TRUE)}
  ELSE IF ~IsJavaScript(s) \/ ~ReceiverIsJSObject(s.receiver_) THEN {RBool(FALSE)}
  ELSE {RBool(s.receiver_.constructor_is_fun)}

\* messages.cc:170-196: a record with neither marker returns before pos_ is
\* set, so pos_ holds whatever the declaration leaves there.
Construct ==
  /\ ~site.constructed
  /\ \E unset \in {-1, 5} :
       site' = IF call_site_obj.marker = "none"
                 THEN [CallSiteConstructor(call_site_obj) EXCEPT !.pos_ = unset]
                 ELSE CallSiteConstructor(call_site_obj)
  /\ UNCHANGED <<call_site_obj, accessor, result>>

\* One accessor is called on the constructed site.
Call(name, results) ==
  /\ site.constructed
  /\ accessor = "none"
  /\ accessor' = name
  /\ result' \in results
  /\ UNCHANGED <<call_site_obj, site>>

(***************************************************************************)
(* Claims about CallSite.                                                  *)
(***************************************************************************)
\* The absent value of each accessor.
Absent(name) ==
  CASE name \in {"GetFileName", "GetFunctionName", "GetScriptNameOrSourceUrl",
                 "GetMethodName"} -> RNull
    [] name \in {"GetLineNumber", "GetColumnNumber"} -> RInt(-1)
    [] OTHER -> RBool(FALSE)

\* C6: a CallSite made from a record with neither marker is invalid, and
\* every accessor on it returns the absent value (null, -1, false) and does
\* not fail.
C6_InvalidSiteAccessorsAbsent ==
  (site.constructed /\ call_site_obj.marker = "none") =>
    /\ ~IsValid(site)
    /\ accessor # "none" => result = Absent(accessor)

\* The part of C6 the code keeps: the accessors that test IsJavaScript first.
InvalidSiteGuardedAccessors ==
  (site.constructed /\ call_site_obj.marker = "none") =>
    /\ ~IsValid(site)
    /\ accessor \notin {"none", "GetFunctionName", "IsToplevel", "IsConstructor"}
         => result = Absent(accessor)

\* The frames C7 is about: JavaScript frames whose receiver is an object.
MethodNameCalled ==
  /\ accessor = "GetMethodName"
  /\ call_site_obj.marker = "js"
  /\ call_site_obj.receiver.kind = "object"

\* The property names under which some object of the chain binds the function.
BoundNames(chain) ==
  {Keys[i] : i \in {i \in 1..Len(Keys) :
      \E k \in 1..Len(chain) :
        Property(chain[k], Keys[i]) \in {"fun", "fun_dont_enum", "getter"}}}

\* Chains of ordinary objects: no proxy, no access check, no binding of the
\* function that is not enumerable.
OrdinaryChain(chain) ==
  \A k \in 1..Len(chain) :
    /\ chain[k].kind = "JSObject"
    /\ ~chain[k].access_check
    /\ chain[k].m # "fun_dont_enum"

\* C7 as claimed: on a JavaScript frame with an object receiver, a name is
\* returned only when the function is bound under exactly one property name on
\* the receiver's chain; under two or more names, or none, the result is null,
\* also when one of the names is the function's own declared name.
C7_MethodNameOnlyWhenUnique ==
  (MethodNameCalled /\ OrdinaryChain(call_site_obj.receiver.chain)) =>
    LET names == BoundNames(call_site_obj.receiver.chain)
    IN /\ result.kind = "string" => (names = {result.str})
       /\ Cardinality(names) >= 2 => result = RNull
       /\ names = {} => result = RNull

\* The objects the walk looks at: those before the first proxy or object that
\* needs an access check.
RECURSIVE Visible(_, _)
Visible(chain, k) ==
  IF k > Len(chain) \/ chain[k].kind # "JSObject" \/ chain[k].access_check
    THEN k - 1
    ELSE Visible(chain, k + 1)

\* The own enumerable bindings of the function among the visible objects.
EnumerableBindings(chain) ==
  {b \in (1..Visible(chain, 1)) \X (1..Len(Keys)) :
     Property(chain[b[1]], Keys[b[2]]) \in {"fun", "getter"}}

\* The lookup of the function's declared name, less "get " or "set ", along
\* the chain ends at a binding of the function.
DeclaredNameBound(fun, chain) ==
  /\ fun.name.is_string
  /\ \E k \in 1..Visible(chain, 1) :
       /\ Property(chain[k], StripAccessorPrefix(fun.name.chars))
            \in {"fun", "fun_dont_enum", "getter"}
       /\ \A j \in 1..(k - 1) :
            Property(chain[j], StripAccessorPrefix(fun.name.chars)) = "absent"

\* C7, amended: if the lookup of the declared name (less "get "/"set ") along
\* the chain yields the function, that name is returned, whatever else binds
\* the function; otherwise the result is the one own enumerable binding of
\* the function among the objects before the first access check, and null
\* when there is none or more than one.
C7_MethodNameAmended ==
  MethodNameCalled =>
    LET chain == call_site_obj.receiver.chain
        fun == call_site_obj.fun
        bindings == EnumerableBindings(chain)
    IN IF DeclaredNameBound(fun, chain)
         THEN result = RStr(StripAccessorPrefix(fun.name.chars))
       ELSE IF Cardinality(bindings) = 1
         THEN \E b \in bindings : result = RStr(Keys[b[2]])
       ELSE result = RNull

\* The function is bound under its declared name and under another name, and
\* GetMethodName has returned the declared name.
C7_Witness ==
  /\ MethodNameCalled
  /\ OrdinaryChain(call_site_obj.receiver.chain)
  /\ Cardinality(BoundNames(call_site_obj.receiver.chain)) = 2
  /\ DeclaredNameBound(call_site_obj.fun, call_site_obj.receiver.chain)
  /\ result.kind = "string"

(***************************************************************************)
(* MessageTemplate, messages.cc:385-464.                                   *)
(***************************************************************************)
MaxTemplateLen == 7

VARIABLES
  fmt    \* the activation of MessageTemplate::FormatMessage, or idle

formatVars == <<fmt>>

TemplateChars == {"%", "a"}

\* The strings over TemplateChars of a length, in a fixed order.
RECURSIVE StringsOfLength(_)
StringsOfLength(len) ==
  IF len = 0 THEN << <<>> >>
  ELSE LET shorter == StringsOfLength(len - 1)
       IN [k \in 1..(2 * Len(shorter)) |->
             IF k <= Len(shorter)
               THEN Append(shorter[k], "%")
               ELSE Append(shorter[k - Len(shorter)], "a")]

RECURSIVE StringsUpTo(_)
StringsUpTo(len) ==
  IF len = 0 THEN StringsOfLength(0)
  ELSE StringsUpTo(len - 1) \o StringsOfLength(len)

\* The placeholders of a template: the '%' that are not part of a "%%".
RECURSIVE PlaceholderCount(_)
PlaceholderCount(t) ==
  IF t = <<>> THEN 0
  ELSE IF t[1] # "%" THEN PlaceholderCount(Tail(t))
  ELSE IF Len(t) >= 2 /\ t[2] = "%" THEN PlaceholderCount(Tail(Tail(t)))
  ELSE 1 + PlaceholderCount(Tail(t))

\* MESSAGE_TEMPLATES: the catalog; a template has at most three placeholders.
\* Template k of the catalog has id k - 1, and kLastMessage follows the last.
MessageTemplates ==
  SelectSeq(StringsUpTo(MaxTemplateLen), LAMBDA t : PlaceholderCount(t) <= 3)
kLastMessage == Len(MessageTemplates)
TemplateIds == 0..(kLastMessage + 1)

NullString == [is_null |-> TRUE, chars |-> <<>>]
CString(chars) == [is_null |-> FALSE, chars |-> chars]

\* messages.cc:418-429
TemplateString(template_index) ==
  IF template_index \in 0..(kLastMessage - 1)
    THEN CString(MessageTemplates[template_index + 1])
    ELSE NullString

ErrorString == <<"<", "e", "r", "r", "o", "r", ">">>

\* The arguments of the three-string overload: three distinct markers, or
\* one marker and two empty strings.
Markers == << <<"1">>, <<"2">>, <<"3">> >>
ArgumentLists == {Markers, << <<"1">>, <<>>, <<>> >>}

\* The value handed to the one-value overload: a string, or a value whose
\* conversion gives a string, gives something else, or fails.
DynamicValues == {"string", "converts", "converts_to_non_string", "fails"}

FmtIdle == [pc |-> "idle", overload |-> "none", template_index |-> 0,
            template |-> <<>>, args |-> Markers, c |-> 1, i |-> 0,
            builder |-> <<>>, result |-> NullString, thrown |-> FALSE,
            read_beyond |-> FALSE]

\* messages.cc:436-443: the three-string overload looks the template up; an
\* unknown id throws and returns an empty handle.
ScanStart(f, template_index, args) ==
  LET template_string == TemplateString(template_index)
  IN IF template_string.is_null
       THEN [f EXCEPT !.template_index = template_index, !.args = args,
                      !.thrown = TRUE, !.result = NullString, !.pc = "returned"]
       ELSE [f EXCEPT !.template_index = template_index, !.args = args,
                      !.template = template_string.chars,
                      !.c = 1, !.i = 0, !.builder = <<>>, !.pc = "scan"]

\* messages.cc:432: a caller uses the three-string overload.
FormatMessage3(template_index, args) ==
  /\ fmt.pc = "idle"
  /\ fmt' = ScanStart([fmt EXCEPT !.overload = "three"], template_index, args)

\* messages.cc:385-405: the one-value overload converts the value and calls
\* the three-string overload with it and two empty strings.
FormatMessage1(template_index, arg) ==
  /\ fmt.pc = "idle"
  /\ fmt' = IF arg \in {"converts_to_non_string", "fails"}
              THEN [fmt EXCEPT !.overload = "one",
                               !.template_index = template_index,
                               !.result = CString(ErrorString), !.pc = "done"]
              ELSE ScanStart([fmt EXCEPT !.overload = "one"], template_index,
                             << <<"1">>, <<>>, <<>> >>)

\* messages.cc:447-461: one turn of the loop over the template.
ScanNoSkip(f) ==
  LET ch == f.template[f.c]
  IN IF ch = "%"
       THEN IF f.c + 1 <= Len(f.template) /\ f.template[f.c + 1] = "%"
              THEN [f EXCEPT !.c = @ + 1, !.builder = Append(@, "%")]
              ELSE IF f.i < 3
                THEN [f EXCEPT !.c = @ + 1, !.i = @ + 1,
                               !.builder = @ \o f.args[f.i + 1]]
                ELSE [f EXCEPT !.c = @ + 1, !.i = @ + 1, !.read_beyond = TRUE]
       ELSE [f EXCEPT !.c = @ + 1, !.builder = Append(@, ch)]
Scan(f) ==
  LET ch == f.template[f.c]
  IN IF ch = "%"
       THEN IF f.c + 1 <= Len(f.template) /\ f.template[f.c + 1] = "%"
              THEN [f EXCEPT !.c = @ + 2, !.builder = Append(@, "%")]
              ELSE IF f.i < 3
                THEN [f EXCEPT !.c = @ + 1, !.i = @ + 1,
                               !.builder = @ \o f.args[f.i + 1]]
                ELSE [f EXCEPT !.c = @ + 1, !.i = @ + 1, !.read_beyond = TRUE]
       ELSE [f EXCEPT !.c = @ + 1, !.builder = Append(@, ch)]

ScanStep ==
  /\ fmt.pc = "scan"
  /\ fmt.c <= Len(fmt.template)
  /\ fmt' = Scan(fmt)

\* messages.cc:463: builder.Finish().
ScanFinish ==
  /\ fmt.pc = "scan"
  /\ fmt.c > Len(fmt.template)
  /\ fmt' = [fmt EXCEPT !.result = CString(fmt.builder), !.pc = "returned"]

\* messages.cc:406-414: what the one-value overload makes of the result.
OneValueResult(maybe_result_string) ==
  IF maybe_result_string.is_null THEN CString(ErrorString) ELSE maybe_result_string

\* The three-string overload returns to its caller.
FormatReturn ==
  /\ fmt.pc = "returned"
  /\ fmt' = [fmt EXCEPT
       !.result = IF fmt.overload = "one" THEN OneValueResult(@) ELSE @,
       !.pc = "done"]

\* The result is consumed; the next call may start.
FormatReset ==
  /\ fmt.pc = "done"
  /\ fmt' = FmtIdle

(***************************************************************************)
(* Claims about MessageTemplate.                                           *)
(***************************************************************************)
ValidTemplateId(template_index) == template_index \in 0..(kLastMessage - 1)

\* C8: formatting with a valid template id never raises the error of an
\* unknown id; with an invalid id (kLastMessage or beyond) every overload
\* signals the error to its caller and returns no string.
C8_InvalidIdAlwaysSignals ==
  fmt.pc = "done" =>
    /\ ValidTemplateId(fmt.template_index) => (~fmt.thrown /\ ~fmt.result.is_null)
    /\ ~ValidTemplateId(fmt.template_index) => fmt.result.is_null

\* The part of C8 the code keeps: valid ids never raise, and the three-string
\* overload returns an empty handle for an invalid id.
ThreeStringOverloadSignals ==
  fmt.pc = "done" =>
    /\ ValidTemplateId(fmt.template_index) => (~fmt.thrown /\ ~fmt.result.is_null)
    /\ (~ValidTemplateId(fmt.template_index) /\ fmt.overload = "three")
         => (fmt.thrown /\ fmt.result.is_null)

\* The text a template stands for: "%%" is one '%', the k-th other '%' is the
\* k-th argument, every other character is itself.
RECURSIVE Render(_, _, _)
Render(t, args, k) ==
  IF t = <<>> THEN <<>>
  ELSE IF t[1] # "%" THEN <<t[1]>> \o Render(Tail(t), args, k)
  ELSE IF Len(t) >= 2 /\ t[2] = "%" THEN <<"%">> \o Render(Tail(Tail(t)), args, k)
  ELSE args[k] \o Render(Tail(t), args, k + 1)

IsMarker(ch) == ch \in {"1", "2", "3"}

\* C9: the three-string overload returns the template with every "%%" as one
\* '%' and the k-th other '%' replaced by the k-th argument; N distinct
\* markers come out once each, in order, and no argument beyond the third is
\* read.
C9_FormatSubstitutesInOrder ==
  /\ fmt.pc = "scan" => (fmt.i <= 3 /\ ~fmt.read_beyond)
  /\ (fmt.pc \in {"returned", "done"} /\ fmt.overload = "three"
        /\ ValidTemplateId(fmt.template_index)) =>
       /\ fmt.result = CString(Render(fmt.template, fmt.args, 1))
       /\ fmt.i = PlaceholderCount(fmt.template)
       /\ fmt.args = Markers =>
            SelectSeq(fmt.result.chars, IsMarker) = [k \in 1..fmt.i |-> Markers[k][1]]
       /\ Len(SelectSeq(fmt.result.chars, LAMBDA ch : ch = "%")) * 2 + fmt.i
            = Len(SelectSeq(fmt.template, LAMBDA ch : ch = "%"))

\* A template with three placeholders and a "%%" has been formatted with three
\* distinct markers.
C9_Witness ==
  /\ fmt.pc = "done"
  /\ fmt.overload = "three"
  /\ fmt.args = Markers
  /\ fmt.i = 3
  /\ \E p \in 1..Len(fmt.result.chars) : fmt.result.chars[p] = "%"

(***************************************************************************)
(* ConstructError, messages.cc:466-521, and the capture of the simple      *)
(* stack trace it asks for.                                                *)
(***************************************************************************)
MaxStack == 3

VARIABLES
  frames,    \* the functions of the live call stack, innermost first
  capture    \* the error construction and stack walk in progress, or idle

captureVars == <<frames, capture>>

Functions == {"A", "B", "C"}
Stacks == UNION {[1..len -> Functions] : len \in 1..MaxStack}
SkipModes == {"SKIP_NONE", "SKIP_FIRST", "SKIP_UNTIL_SEEN"}

NullCaller == [is_null |-> TRUE, fun |-> "A"]
Caller(fun) == [is_null |-> FALSE, fun |-> fun]

\* new_target: undefined, a function, or a receiver that is no function.
NewTargets ==
  {[kind |-> "undefined", fun |-> "A"], [kind |-> "JSReceiver", fun |-> "A"]}
  \cup {[kind |-> "JSFunction", fun |-> f] : f \in Functions}

CaptureIdle == [pc |-> "idle", via |-> "none", requested |-> "SKIP_NONE",
                new_target |-> [kind |-> "undefined", fun |-> "A"],
                suppress_detailed_trace |-> FALSE, detailed |-> FALSE,
                mode |-> "SKIP_NONE", caller |-> NullCaller,
                k |-> 1, skip_next_frame_ |-> FALSE, elements |-> <<>>]

\* messages.cc:506-513: the mode and the caller handed to the capture.
SimpleTraceRequestAnyMode(mode, new_target) ==
  IF new_target.kind = "JSFunction"
    THEN [mode |-> "SKIP_UNTIL_SEEN", caller |-> Caller(new_target.fun)]
    ELSE [mode |-> mode, caller |-> NullCaller]
SimpleTraceRequest(mode, new_target) ==
  IF mode = "SKIP_FIRST" /\ new_target.kind = "JSFunction"
    THEN [mode |-> "SKIP_UNTIL_SEEN", caller |-> Caller(new_target.fun)]
    ELSE [mode |-> mode, caller |-> NullCaller]

\* StackTraceHelper: the flag the helper starts with.
HelperStart(mode) == mode # "SKIP_NONE"

\* messages.cc:466-521: the object is made, the message installed, the
\* detailed trace captured unless suppressed; any of these may fail, and then
\* the construction returns the exception.  Otherwise the simple trace is
\* captured.
ConstructError(new_target, message, mode, suppress_detailed_trace, failure) ==
  /\ capture.pc = "idle"
  /\ ~(failure \in {"to_string", "set_message"} /\ message = "undefined")
  /\ ~(failure = "detailed" /\ suppress_detailed_trace)
  /\ LET request == SimpleTraceRequest(mode, new_target)
         started == [capture EXCEPT
                       !.via = "ConstructError",
                       !.requested = mode,
                       !.new_target = new_target,
                       !.suppress_detailed_trace = suppress_detailed_trace]
     IN capture' =
          IF failure # "none"
            THEN [started EXCEPT !.pc = "exception"]
            ELSE [started EXCEPT
                    !.detailed = ~suppress_detailed_trace,
                    !.mode = request.mode,
                    !.caller = request.caller,
                    !.k = 1,
                    !.skip_next_frame_ = HelperStart(request.mode),
                    !.elements = <<>>,
                    !.pc = "walk"]
  /\ UNCHANGED frames

\* Isolate::CaptureAndSetSimpleStackTrace called by another caller, with a
\* function whenever the mode is SKIP_UNTIL_SEEN.
CaptureSimpleStackTrace(mode, caller) ==
  /\ capture.pc = "idle"
  /\ (mode = "SKIP_UNTIL_SEEN") = ~caller.is_null
  /\ capture' = [capture EXCEPT
                   !.via = "capture",
                   !.requested = mode,
                   !.mode = mode,
                   !.caller = caller,
                   !.k = 1,
                   !.skip_next_frame_ = HelperStart(mode),
                   !.elements = <<>>,
                   !.pc = "walk"]
  /\ UNCHANGED frames

\* StackTraceHelper::ShouldIncludeFrame: whether the frame of fun is kept,
\* and the flag afterwards.  Without a caller the comparison in mode
\* SKIP_UNTIL_SEEN reads an empty handle: any outcome, or a failed walk.
ShouldIncludeFrameKeepSeen(mode, caller, skip_next_frame_, fun) ==
  CASE mode = "SKIP_NONE" ->
         {[include |-> TRUE, skip |-> skip_next_frame_, crash |-> FALSE]}
    [] mode = "SKIP_FIRST" ->
         {[include |-> ~skip_next_frame_, skip |-> FALSE, crash |-> FALSE]}
    [] OTHER ->
         IF caller.is_null
           THEN [include : BOOLEAN, skip : BOOLEAN, crash : BOOLEAN]
           ELSE {[include |-> ~skip_next_frame_ \/ fun = caller.fun,
                  skip |-> skip_next_frame_ /\ fun # caller.fun,
                  crash |-> FALSE]}
ShouldIncludeFrame(mode, caller, skip_next_frame_, fun) ==
  CASE mode = "SKIP_NONE" ->
         {[include |-> TRUE, skip |-> skip_next_frame_, crash |-> FALSE]}
    [] mode = "SKIP_FIRST" ->
         {[include |-> ~skip_next_frame_, skip |-> FALSE, crash |-> FALSE]}
    [] OTHER ->
         IF caller.is_null
           THEN [include : BOOLEAN, skip : BOOLEAN, crash : BOOLEAN]
           ELSE {[include |-> ~skip_next_frame_,
                  skip |-> skip_next_frame_ /\ fun # caller.fun,
                  crash |-> FALSE]}

\* The walk looks at the next frame, outward from the innermost.
WalkStep ==
  /\ capture.pc = "walk"
  /\ capture.k <= Len(frames)
  /\ \E outcome \in ShouldIncludeFrame(capture.mode, capture.caller,
                                       capture.skip_next_frame_, frames[capture.k]) :
       capture' =
         IF outcome.crash
           THEN [capture EXCEPT !.pc = "crash"]
           ELSE [capture EXCEPT
                   !.k = @ + 1,
                   !.skip_next_frame_ = outcome.skip,
                   !.elements = IF outcome.include
                                  THEN Append(@, frames[capture.k]) ELSE @]
  /\ UNCHANGED frames

\* The walk ends at the root of the stack.
WalkEnd ==
  /\ capture.pc = "walk"
  /\ capture.k > Len(frames)
  /\ capture' = [capture EXCEPT !.pc = "done"]
  /\ UNCHANGED frames

\* messages.cc:516-518: setting the simple trace on the error object may
\* itself fail, and then the construction returns the exception.
CaptureSimpleFails ==
  /\ capture.pc = "walk"
  /\ capture.via = "ConstructError"
  /\ capture.k > Len(frames)
  /\ capture' = [capture EXCEPT !.pc = "exception"]
  /\ UNCHANGED frames

\* The error is handed over; another construction or capture may follow.
CaptureReset ==
  /\ capture.pc \in {"done", "exception", "crash"}
  /\ capture' = CaptureIdle
  /\ UNCHANGED frames

(***************************************************************************)
(* Claims about the stack capture.                                         *)
(***************************************************************************)
ExampleStack == <<"C", "B", "A">>

FirstFrameOf(callstack, fun) ==
  IF \E p \in 1..Len(callstack) : callstack[p] = fun
    THEN CHOOSE p \in 1..Len(callstack) :
           callstack[p] = fun /\ \A q \in 1..(p - 1) : callstack[q] # fun
    ELSE 0

Refined ==
  capture.requested = "SKIP_FIRST" /\ capture.new_target.kind = "JSFunction"

\* ConstructError has come to the capture of the simple trace.
SimpleTraceAsked ==
  capture.via = "ConstructError" /\ capture.pc \in {"walk", "done", "crash"}

\* C11: ConstructError captures the simple trace skipping until new_target is
\* seen exactly when the requested mode skips the first frame and new_target
\* is a function; otherwise the requested mode is passed on unchanged with no
\* caller; and every construction that succeeds has captured the simple
\* trace, with the detailed trace suppressed or not.
C11_SkipModeRefinement ==
  /\ SimpleTraceAsked =>
       /\ Refined => /\ capture.mode = "SKIP_UNTIL_SEEN"
                     /\ capture.caller = Caller(capture.new_target.fun)
       /\ ~Refined => /\ capture.mode = capture.requested
                      /\ capture.caller.is_null
       /\ capture.detailed = ~capture.suppress_detailed_trace
  /\ (capture.via = "ConstructError" /\ capture.pc = "done") =>
       capture.k = Len(frames) + 1

\* An error has been constructed with a function as new_target, the first
\* frame to be skipped and the detailed trace suppressed: the simple trace
\* holds the frames below that function.
C11_Witness ==
  /\ capture.via = "ConstructError"
  /\ capture.pc = "done"
  /\ capture.requested = "SKIP_FIRST"
  /\ capture.new_target = [kind |-> "JSFunction", fun |-> "B"]
  /\ capture.suppress_detailed_trace
  /\ capture.mode = "SKIP_UNTIL_SEEN"
  /\ frames = ExampleStack
  /\ capture.elements = <<"A">>

(***************************************************************************)
(* Specifications: each part of the file is examined with the others idle. *)
(***************************************************************************)
vars == <<reportVars, siteVars, formatVars, captureVars>>

\* Reports over a registry the embedder changes, without nested reports.
ReportInit ==
  /\ listeners = <<>>
  /\ pending_exception = TheHole
  /\ scheduled_exception = TheHole
  /\ stack = <<>>
  /\ call_site_obj = CHOOSE obj \in InvalidFrames : TRUE
  /\ site = NoSite
  /\ accessor = "none"
  /\ result = RNone
  /\ fmt = FmtIdle
  /\ frames = ExampleStack
  /\ capture = CaptureIdle

ReportNext ==
  \/ (\E entry \in Registrations : AddMessageListener(entry)) /\ UNCHANGED <<siteVars, formatVars, captureVars>>
  \/ (\E that \in Callbacks : RemoveMessageListeners(that)) /\ UNCHANGED <<siteVars, formatVars, captureVars>>
  \/ Throw /\ UNCHANGED <<siteVars, formatVars, captureVars>>
  \/ ScheduleException /\ UNCHANGED <<siteVars, formatVars, captureVars>>
  \/ (Depth = 0 /\ ReportMessageEnter) /\ UNCHANGED <<siteVars, formatVars, captureVars>>
  \/ ConvertSkip /\ UNCHANGED <<siteVars, formatVars, captureVars>>
  \/ ConvertJSError /\ UNCHANGED <<siteVars, formatVars, captureVars>>
  \/ ConvertToStringBegin /\ UNCHANGED <<siteVars, formatVars, captureVars>>
  \/ ConvertToStringEnd /\ UNCHANGED <<siteVars, formatVars, captureVars>>
  \/ DispatchStart /\ UNCHANGED <<siteVars, formatVars, captureVars>>
  \/ ReportDefault /\ UNCHANGED <<siteVars, formatVars, captureVars>>
  \/ LoopEnd /\ UNCHANGED <<siteVars, formatVars, captureVars>>
  \/ LoopSkip /\ UNCHANGED <<siteVars, formatVars, captureVars>>
  \/ LoopCall /\ UNCHANGED <<siteVars, formatVars, captureVars>>
  \/ CallbackReturn /\ UNCHANGED <<siteVars, formatVars, captureVars>>
  \/ ReportMessageExit /\ UNCHANGED <<siteVars, formatVars, captureVars>>
  \/ ReportMessageReturn /\ UNCHANGED <<siteVars, formatVars, captureVars>>

SpecReport == ReportInit /\ [][ReportNext]_vars

\* Re-entrant reports over a registry that stays as it is.
InitialRegistries ==
  {<<>>,
   <<[cb |-> "f", data |-> "undefined"]>>,
   <<Undefined, [cb |-> "g", data |-> "data"]>>,
   <<[cb |-> "f", data |-> "undefined"], [cb |-> "g", data |-> "data"]>>}

ReentrantInit ==
  /\ listeners \in InitialRegistries
  /\ pending_exception = TheHole
  /\ scheduled_exception = TheHole
  /\ stack = <<>>
  /\ call_site_obj = CHOOSE obj \in InvalidFrames : TRUE
  /\ site = NoSite
  /\ accessor = "none"
  /\ result = RNone
  /\ fmt = FmtIdle
  /\ frames = ExampleStack
  /\ capture = CaptureIdle

ReentrantNext ==
  \/ Throw /\ UNCHANGED <<siteVars, formatVars, captureVars>>
  \/ ScheduleException /\ UNCHANGED <<siteVars, formatVars, captureVars>>
  \/ ReportMessageEnter /\ UNCHANGED <<siteVars, formatVars, captureVars>>
  \/ ConvertSkip /\ UNCHANGED <<siteVars, formatVars, captureVars>>
  \/ ConvertJSError /\ UNCHANGED <<siteVars, formatVars, captureVars>>
  \/ ConvertToStringBegin /\ UNCHANGED <<siteVars, formatVars, captureVars>>
  \/ ConvertToStringEnd /\ UNCHANGED <<siteVars, formatVars, captureVars>>
  \/ DispatchStart /\ UNCHANGED <<siteVars, formatVars, captureVars>>
  \/ ReportDefault /\ UNCHANGED <<siteVars, formatVars, captureVars>>
  \/ LoopEnd /\ UNCHANGED <<siteVars, formatVars, captureVars>>
  \/ LoopSkip /\ UNCHANGED <<siteVars, formatVars, captureVars>>
  \/ LoopCall /\ UNCHANGED <<siteVars, formatVars, captureVars>>
  \/ CallbackReturn /\ UNCHANGED <<siteVars, formatVars, captureVars>>
  \/ ReportMessageExit /\ UNCHANGED <<siteVars, formatVars, captureVars>>
  \/ ReportMessageReturn /\ UNCHANGED <<siteVars, formatVars, captureVars>>

SpecReentrant == ReentrantInit /\ [][ReentrantNext]_vars

\* A call site is made from any frame record and one accessor is called.
SiteInit ==
  /\ call_site_obj \in FrameRecords
  /\ site = NoSite
  /\ accessor = "none"
  /\ result = RNone
  /\ listeners = <<>>
  /\ pending_exception = TheHole
  /\ scheduled_exception = TheHole
  /\ stack = <<>>
  /\ fmt = FmtIdle
  /\ frames = ExampleStack
  /\ capture = CaptureIdle

SiteNext ==
  \/ Construct /\ UNCHANGED <<reportVars, formatVars, captureVars>>
  \/ Call("GetFileName", GetFileName(site)) /\ UNCHANGED <<reportVars, formatVars, captureVars>>
  \/ Call("GetFunctionName", GetFunctionName(site)) /\ UNCHANGED <<reportVars, formatVars, captureVars>>
  \/ Call("GetScriptNameOrSourceUrl", GetScriptNameOrSourceUrl(site)) /\ UNCHANGED <<reportVars, formatVars, captureVars>>
  \/ Call("GetMethodName", GetMethodName(site)) /\ UNCHANGED <<reportVars, formatVars, captureVars>>
  \/ Call("GetLineNumber", CallSiteGetLineNumber(site)) /\ UNCHANGED <<reportVars, formatVars, captureVars>>
  \/ Call("GetColumnNumber", CallSiteGetColumnNumber(site)) /\ UNCHANGED <<reportVars, formatVars, captureVars>>
  \/ Call("IsNative", IsNative(site)) /\ UNCHANGED <<reportVars, formatVars, captureVars>>
  \/ Call("IsToplevel", IsToplevel(site)) /\ UNCHANGED <<reportVars, formatVars, captureVars>>
  \/ Call("IsEval", IsEval(site)) /\ UNCHANGED <<reportVars, formatVars, captureVars>>
  \/ Call("IsConstructor", IsConstructor(site)) /\ UNCHANGED <<reportVars, formatVars, captureVars>>

SpecCallSite == SiteInit /\ [][SiteNext]_vars

\* Messages are formatted one after the other, by either overload.
FormatInit ==
  /\ fmt = FmtIdle
  /\ listeners = <<>>
  /\ pending_exception = TheHole
  /\ scheduled_exception = TheHole
  /\ stack = <<>>
  /\ call_site_obj = CHOOSE obj \in InvalidFrames : TRUE
  /\ site = NoSite
  /\ accessor = "none"
  /\ result = RNone
  /\ frames = ExampleStack
  /\ capture = CaptureIdle

FormatNext ==
  \/ (\E template_index \in TemplateIds, args \in ArgumentLists :
        FormatMessage3(template_index, args)) /\ UNCHANGED <<reportVars, siteVars, captureVars>>
  \/ (\E template_index \in TemplateIds, arg \in DynamicValues :
        FormatMessage1(template_index, arg)) /\ UNCHANGED <<reportVars, siteVars, captureVars>>
  \/ ScanStep /\ UNCHANGED <<reportVars, siteVars, captureVars>>
  \/ ScanFinish /\ UNCHANGED <<reportVars, siteVars, captureVars>>
  \/ FormatReturn /\ UNCHANGED <<reportVars, siteVars, captureVars>>
  \/ FormatReset /\ UNCHANGED <<reportVars, siteVars, captureVars>>

SpecFormat == FormatInit /\ [][FormatNext]_vars

\* Errors are constructed and stacks captured over any live stack.
CaptureInit ==
  /\ frames \in Stacks
  /\ capture = CaptureIdle
  /\ listeners = <<>>
  /\ pending_exception = TheHole
  /\ scheduled_exception = TheHole
  /\ stack = <<>>
  /\ call_site_obj = CHOOSE obj \in InvalidFrames : TRUE
  /\ site = NoSite
  /\ accessor = "none"
  /\ result = RNone
  /\ fmt = FmtIdle

CaptureNext ==
  \/ (\E new_target \in NewTargets, message \in {"undefined", "value"},
         mode \in SkipModes, suppress_detailed_trace \in BOOLEAN,
         failure \in {"none", "new", "to_string", "set_message", "detailed"} :
        ConstructError(new_target, message, mode, suppress_detailed_trace, failure))
       /\ UNCHANGED <<reportVars, siteVars, formatVars>>
  \/ (\E mode \in SkipModes, caller \in {NullCaller} \cup {Caller(f) : f \in Functions} :
        CaptureSimpleStackTrace(mode, caller)) /\ UNCHANGED <<reportVars, siteVars, formatVars>>
  \/ WalkStep /\ UNCHANGED <<reportVars, siteVars, formatVars>>
  \/ WalkEnd /\ UNCHANGED <<reportVars, siteVars, formatVars>>
  \/ CaptureSimpleFails /\ UNCHANGED <<reportVars, siteVars, formatVars>>
  \/ CaptureReset /\ UNCHANGED <<reportVars, siteVars, formatVars>>

SpecCapture == CaptureInit /\ [][CaptureNext]_vars

====
